---- MODULE Spec2Model ----
(***************************************************************************)
(* A model of quixstreams' TopicManager (src/quixstreams/topic_manager.py): *)
(* the topic and changelog registries, the derivation of TopicConfigs, the *)
(* derivation of changelog topics and the validation of topics against the *)
(* broker as the Admin collaborator reports it; and of the two             *)
(* StreamingDataFrame classes (StreamingDataFrames and PythonClient): the  *)
(* steps their builder calls append to a Pipeline and what processing a    *)
(* Row through them yields.                                                *)
(*                                                                         *)
(* Python values are modelled as records tagged with a "kind": a dict is   *)
(* an insertion-ordered sequence of key/value items, None is a value of    *)
(* its own, an extra_config mapping is a function from keys to values.     *)
(***************************************************************************)
EXTENDS Integers, Sequences, FiniteSets, TLC

VARIABLES broker, _topics, _changelog_topics, calls, last,
          dataframes, pipelines

vars == <<broker, _topics, _changelog_topics, calls, last,
          dataframes, pipelines>>

\* The TopicManager's own state and the dataframes' state.
manager_vars == <<broker, _topics, _changelog_topics>>
frame_vars == <<dataframes, pipelines>>

(***************************************************************************)
(* Bounds of the model and the sets the inputs are drawn from.             *)
(***************************************************************************)
MaxPartitions == 2
MaxCalls == 2

Names == {"orders", "events"}
Suffixes == {"default", "rolling10s"}
Groups == {"group1", "group2"}
Partitions == 1..MaxPartitions
Replications == {1, 2}

(***************************************************************************)
(* Python values.                                                          *)
(***************************************************************************)
None == [kind |-> "None"]

\* A falsy number stands for an argument that was not given (None or 0).
NotGiven == 0

EmptyMap == [k \in {} |-> ""]

\* The extra_config mappings topics are declared with and brokers hold.
Retention100 == [k \in {"retention.ms"} |-> "100"]
Retention200 == [k \in {"retention.ms"} |-> "200"]
RetentionAndDelete ==
  [k \in {"retention.ms", "cleanup.policy"} |->
     IF k = "retention.ms" THEN "100" ELSE "delete"]
ExtraConfigs == {EmptyMap, Retention100, Retention200, RetentionAndDelete}

\* dict: insertion-ordered items.
EmptyDict == [kind |-> "dict", items |-> <<>>]

DictHas(d, k) == \E i \in 1..Len(d.items) : d.items[i].key = k

DictGet(d, k) ==
  LET i == CHOOSE j \in 1..Len(d.items) : d.items[j].key = k
  IN  d.items[i].value

\* d[k] = v : an existing key keeps its position, a new key goes last.
DictSet(d, k, v) ==
  IF DictHas(d, k)
  THEN [d EXCEPT !.items =
          [i \in 1..Len(d.items) |->
             IF d.items[i].key = k THEN [key |-> k, value |-> v]
                                   ELSE d.items[i]]]
  ELSE [d EXCEPT !.items = Append(d.items, [key |-> k, value |-> v])]

DictKeys(d) == {d.items[i].key : i \in 1..Len(d.items)}

\* d.setdefault(k, default)
DictSetDefault(d, k, default) ==
  IF DictHas(d, k) THEN d ELSE DictSet(d, k, default)

\* A Python set value (an optional set argument is a PySet or None).
PySet(S) == [kind |-> "set", elems |-> S]

\* Python truthiness of the values the manager tests with "if x" / "x or y".
Truthy(v) ==
  CASE v.kind = "None" -> FALSE
    [] v.kind = "set"  -> v.elems # {}
    [] v.kind = "dict" -> v.items # <<>>
    [] v.kind = "list" -> v.items # <<>>
    [] OTHER           -> TRUE

(***************************************************************************)
(* models.topics: TopicConfig and Topic, the value objects the manager     *)
(* builds.  Their module is not part of the sources at hand; they are      *)
(* modelled from the specification's data model.                           *)
(***************************************************************************)
\* extra_config restricted to the allowed keys.
Restrict(m, S) == [k \in (DOMAIN m) \cap S |-> m[k]]

\* defaults apply first, explicit keys win.
MergeOver(defaults, m) ==
  [k \in (DOMAIN defaults) \cup (DOMAIN m) |->
     IF k \in DOMAIN m THEN m[k] ELSE defaults[k]]

TopicConfig(name, num_partitions, replication_factor, extra_config) ==
  [kind |-> "TopicConfig",
   name |-> name,
   num_partitions |-> num_partitions,
   replication_factor |-> replication_factor,
   extra_config |-> IF extra_config = None THEN EmptyMap ELSE extra_config]

\* TopicConfig.update_extra_config(defaults=None, allowed=None)
update_extra_config(cfg, defaults, allowed) ==
  LET merged == IF defaults = None THEN cfg.extra_config
                ELSE MergeOver(defaults, cfg.extra_config)
      kept   == IF allowed = None THEN merged
                ELSE Restrict(merged, allowed.elems)
  IN  [cfg EXCEPT !.extra_config = kept]

Topic(name, value_deserializer, key_deserializer, value_serializer, key_serializer, topic_config) ==
  [kind |-> "Topic",
   name |-> name,
   value_deserializer |-> value_deserializer,
   key_deserializer |-> key_deserializer,
   value_serializer |-> value_serializer,
   key_serializer |-> key_serializer,
   topic_config |-> topic_config]

(***************************************************************************)
(* Module-level helpers of topic_manager.py.                               *)
(***************************************************************************)
RECURSIVE Flatten(_)
Flatten(ss) == IF ss = <<>> THEN <<>> ELSE Head(ss) \o Flatten(Tail(ss))

\* dict_values(d): the leaves of nested dicts, in order.
RECURSIVE dict_values(_)
dict_values(d) ==
  IF Truthy(d)
  THEN IF d.kind = "dict"
       THEN Flatten([i \in 1..Len(d.items) |-> dict_values(d.items[i].value)])
       ELSE IF d.kind = "list" THEN d.items ELSE <<d>>
  ELSE <<>>

\* A call either returns a value or raises.
Returned(v) == [raised |-> "", value |-> v]
Raised(e) == [raised |-> e, value |-> None]

\* get_topic_configs(topics): the configs of a list of Topics; a list of
\* TopicConfigs is returned as it is.
get_topic_configs(topic_list) ==
  IF topic_list = <<>> THEN Raised("IndexError")
  ELSE IF topic_list[1].kind = "Topic"
       THEN IF \E i \in 1..Len(topic_list) : ~Truthy(topic_list[i].topic_config)
            THEN Raised("ValueError")
            ELSE Returned([i \in 1..Len(topic_list) |-> topic_list[i].topic_config])
       ELSE Returned(topic_list)

(***************************************************************************)
(* TopicManager: class attributes.                                         *)
(***************************************************************************)
_topic_partitions == 2
_topic_replication == 1
_topic_extra_config_defaults == EmptyMap
_changelog_extra_config_defaults == [k \in {"cleanup.policy"} |-> "compact"]
_changelog_extra_config_imports_defaults == {"retention.bytes", "retention.ms"}

\* x or y, on numbers.
OrElse(x, y) == IF x = NotGiven THEN y ELSE x

topics == dict_values(_topics)

changelog_topics == dict_values(_changelog_topics)

all_topic_configs == get_topic_configs(topics \o changelog_topics)

_topic_config_with_defaults(name, num_partitions, replication_factor, extra_config, extra_config_defaults) ==
  LET topic_config == TopicConfig(name,
                                  OrElse(num_partitions, _topic_partitions),
                                  OrElse(replication_factor, _topic_replication),
                                  extra_config)
      defaults == IF extra_config_defaults = None
                  THEN _topic_extra_config_defaults
                  ELSE extra_config_defaults
  IN  update_extra_config(topic_config, defaults, None)

_apply_topic_prefix(name) == name

_process_topic_configs(name, topic_config, extra_config_defaults, auto_create_config) ==
  IF Truthy(topic_config)
  THEN _topic_config_with_defaults(name, topic_config.num_partitions,
                                   topic_config.replication_factor,
                                   topic_config.extra_config,
                                   extra_config_defaults)
  ELSE IF ~auto_create_config
       THEN None
       ELSE _topic_config_with_defaults(name, NotGiven, NotGiven, None,
                                        extra_config_defaults)

(***************************************************************************)
(* The Admin collaborator, as the specification states its contract:       *)
(* inspect_topics(names) maps every requested name to the topic's actual   *)
(* TopicConfig on the broker, or to None when the broker has no such topic.*)
(***************************************************************************)
inspect_topics(names) ==
  [n \in names |-> IF n \in DOMAIN broker THEN broker[n] ELSE None]

(***************************************************************************)
(* TopicManager.topic                                                      *)
(***************************************************************************)
\* A changed registration: an earlier entry of the name is kept.
topic_call_keep_first(name, topic_config, auto_create_config) ==
  LET final == _apply_topic_prefix(name)
      t == Topic(final, None, "bytes", None, "bytes",
                 _process_topic_configs(final, topic_config, None,
                                        auto_create_config))
  IN  [returned |-> t, topics_after |-> DictSetDefault(_topics, final, t)]

\* The Topic built and the registry after self._topics[name] = topic.
topic_call(name, topic_config, auto_create_config) ==
  LET final == _apply_topic_prefix(name)
      t == Topic(final, None, "bytes", None, "bytes",
                 _process_topic_configs(final, topic_config, None,
                                        auto_create_config))
  IN  [returned |-> t, topics_after |-> DictSet(_topics, final, t)]

topic(name, topic_config, auto_create_config) ==
  /\ calls < MaxCalls
  /\ LET r == topic_call(name, topic_config, auto_create_config)
     IN  /\ _topics' = r.topics_after
         /\ last' = [op |-> "topic", name |-> name,
                     topic_config |-> topic_config,
                     auto_create_config |-> auto_create_config,
                     raised |-> "", returned |-> r.returned,
                     topics_before |-> _topics]
  /\ calls' = calls + 1
  /\ UNCHANGED <<broker, _changelog_topics, frame_vars>>

(***************************************************************************)
(* TopicManager.changelog_topic                                            *)
(***************************************************************************)
\* A changed naming: the source topic before the consumer group.
_format_changelog_name_swapped(consumer_group, source_topic_name, suffix) ==
  "changelog__" \o source_topic_name \o "--" \o consumer_group \o "--" \o suffix

_format_changelog_name(consumer_group, source_topic_name, suffix) ==
  "changelog__" \o consumer_group \o "--" \o source_topic_name \o "--" \o suffix

\* Whether the class-level default import set is the one the call works on.
uses_import_defaults(configs_to_import) == ~Truthy(configs_to_import)

\* A changed allow-list: "cleanup.policy" is not discarded.
changelog_imports_keep_policy(configs_to_import) ==
  IF uses_import_defaults(configs_to_import)
  THEN PySet(_changelog_extra_config_imports_defaults)
  ELSE configs_to_import

\* The import allow-list the call works with, after
\* configs_to_import.discard("cleanup.policy").
changelog_imports(configs_to_import) ==
  LET chosen == IF uses_import_defaults(configs_to_import)
                THEN PySet(_changelog_extra_config_imports_defaults)
                ELSE configs_to_import
  IN  PySet(chosen.elems \ {"cleanup.policy"})

\* A changed resolution: the registered source Topic's config first.
changelog_base_config_local_first(source_topic_name) ==
  LET actual == inspect_topics({source_topic_name})[source_topic_name]
  IN  IF DictHas(_topics, source_topic_name)
         /\ Truthy(DictGet(_topics, source_topic_name).topic_config)
      THEN [raised |-> "",
            value |-> DictGet(_topics, source_topic_name).topic_config,
            origin |-> "local"]
      ELSE [raised |-> "", value |-> actual, origin |-> "broker"]

\* inspect_topics([source])[source] or self._topics[source].topic_config
changelog_base_config(source_topic_name) ==
  LET actual == inspect_topics({source_topic_name})[source_topic_name]
  IN  IF Truthy(actual)
      THEN [raised |-> "", value |-> actual, origin |-> "broker"]
      ELSE IF ~DictHas(_topics, source_topic_name)
           THEN [raised |-> "KeyError", value |-> None, origin |-> "none"]
           ELSE [raised |-> "",
                 value |-> DictGet(_topics, source_topic_name).topic_config,
                 origin |-> "local"]

\* The changelog Topic built from the base config the allow-list was
\* applied to.
changelog_build(name, filtered) ==
  Topic(name, "bytes", "bytes", "bytes", "bytes",
        _process_topic_configs(name, filtered,
                               _changelog_extra_config_defaults, TRUE))

\* self._changelog_topics.setdefault(source_topic_name, {})[suffix] = topic
changelog_register(registry, source_topic_name, suffix, t) ==
  LET with_source == DictSetDefault(registry, source_topic_name, EmptyDict)
      inner == DictGet(with_source, source_topic_name)
  IN  DictSet(with_source, source_topic_name, DictSet(inner, suffix, t))

\* The whole call: what it raises or returns, and both registries and the
\* caller's set as it leaves them.
changelog_topic_call(source_topic_name, suffix, consumer_group, configs_to_import) ==
  LET name == _format_changelog_name(consumer_group, source_topic_name, suffix)
      imports == changelog_imports(configs_to_import)
      imports_after == IF uses_import_defaults(configs_to_import)
                       THEN configs_to_import ELSE imports
      \* when the class-level set is the one worked on, the discard is
      \* applied to it
      defaults_after == IF uses_import_defaults(configs_to_import)
                        THEN imports.elems
                        ELSE _changelog_extra_config_imports_defaults
      base == changelog_base_config(source_topic_name)
      unchanged(e) == [raised |-> e, returned |-> None, origin |-> base.origin,
                       imports_after |-> imports_after,
                       defaults_after |-> defaults_after,
                       topics_after |-> _topics,
                       changelog_after |-> _changelog_topics]
  IN  IF base.raised # "" THEN unchanged(base.raised)
      ELSE IF ~Truthy(base.value) THEN unchanged("MissingTopicForChangelog")
      ELSE
        LET filtered == update_extra_config(base.value, None, imports)
            t == changelog_build(name, filtered)
            \* update_extra_config works in place: a base config taken from
            \* the registered source Topic is that Topic's own config
            source == DictGet(_topics, source_topic_name)
        IN  [raised |-> "", returned |-> t, origin |-> base.origin,
             imports_after |-> imports_after,
             defaults_after |-> defaults_after,
             topics_after |->
               IF base.origin = "local"
               THEN DictSet(_topics, source_topic_name,
                            [source EXCEPT !.topic_config = filtered])
               ELSE _topics,
             changelog_after |->
               changelog_register(_changelog_topics, source_topic_name,
                                  suffix, t)]

changelog_topic(source_topic_name, suffix, consumer_group, configs_to_import) ==
  /\ calls < MaxCalls
  /\ LET r == changelog_topic_call(source_topic_name, suffix, consumer_group,
                                   configs_to_import)
     IN  /\ _topics' = r.topics_after
         /\ _changelog_topics' = r.changelog_after
         /\ last' = [op |-> "changelog_topic",
                     source_topic_name |-> source_topic_name,
                     suffix |-> suffix,
                     consumer_group |-> consumer_group,
                     configs_to_import |-> configs_to_import,
                     raised |-> r.raised, returned |-> r.returned,
                     origin |-> r.origin,
                     imports_after |-> r.imports_after,
                     defaults_after |-> r.defaults_after,
                     topics_before |-> _topics,
                     changelog_before |-> _changelog_topics]
  /\ calls' = calls + 1
  /\ UNCHANGED <<broker, frame_vars>>

(***************************************************************************)
(* TopicManager.validate_topics / validate_all_topics                      *)
(* A validation level is "exists", "required" or "all"; "none" is None.    *)
(***************************************************************************)
Levels == {"none", "exists", "required", "all"}

TopicMissing == [issue |-> "TOPIC MISSING"]

Mismatch(expected, actual) ==
  [issue |-> "mismatch", expected |-> expected, actual |-> actual]

\* A changed comparison: the actual extra_config is cut to the expected
\* keys at every level.
validate_actual_restricting(expected, actual, extras) ==
  update_extra_config(actual, None, PySet(DOMAIN expected.extra_config))

\* The actual config as the loop body leaves it before comparing:
\* at "all" its extra_config is cut to the expected keys, otherwise it is
\* overwritten with the expected extra_config.
validate_actual(expected, actual, extras) ==
  IF extras
  THEN update_extra_config(actual, None, PySet(DOMAIN expected.extra_config))
  ELSE [actual EXCEPT !.extra_config = expected.extra_config]

\* One pass of the loop body for configs[i]; the issues collected so far.
RECURSIVE validate_loop(_, _, _, _, _)
validate_loop(configs, i, actual_configs, level, issues) ==
  IF i > Len(configs)
  THEN [raised |-> IF Truthy(issues) THEN "TopicValidationError" ELSE "",
        issues |-> issues]
  ELSE
    LET expected == configs[i]
        exists_only == level = "exists"
        extras == level = "all"
    IN  IF expected.name \notin DOMAIN actual_configs
        THEN [raised |-> "KeyError", issues |-> issues]
        ELSE
          LET actual == actual_configs[expected.name]
          IN  IF expected.name \in DOMAIN actual_configs
              THEN IF exists_only
                   THEN validate_loop(configs, i + 1, actual_configs, level,
                                      issues)
                   ELSE IF actual = None
                        THEN [raised |-> "AttributeError", issues |-> issues]
                        ELSE
                          LET compared == validate_actual(expected, actual,
                                                          extras)
                          IN  validate_loop(
                                configs, i + 1, actual_configs, level,
                                IF expected # compared
                                THEN DictSet(issues, expected.name,
                                             Mismatch(expected, compared))
                                ELSE issues)
              ELSE validate_loop(configs, i + 1, actual_configs, level,
                                 DictSet(issues, expected.name, TopicMissing))

\* validate_topics(topics, validation_level): what it raises, the issues it
\* collected and how often it asked the Admin.
validate_topics_call(topic_list, validation_level) ==
  IF validation_level = "none"
  THEN [raised |-> "", issues |-> EmptyDict, inspect_calls |-> 0]
  ELSE
    LET actual_configs ==
          inspect_topics({topic_list[i].name : i \in 1..Len(topic_list)})
        configs == get_topic_configs(topic_list)
    IN  IF configs.raised # ""
        THEN [raised |-> configs.raised, issues |-> EmptyDict,
              inspect_calls |-> 1]
        ELSE
          LET r == validate_loop(configs.value, 1, actual_configs,
                                 validation_level, EmptyDict)
          IN  [raised |-> r.raised, issues |-> r.issues, inspect_calls |-> 1]

\* validate_all_topics(validation_level): self.all_topic_configs is
\* evaluated before validate_topics is entered.
validate_all_topics_call(validation_level) ==
  LET configs == all_topic_configs
  IN  IF configs.raised # ""
      THEN [raised |-> configs.raised, issues |-> EmptyDict,
            inspect_calls |-> 0]
      ELSE validate_topics_call(configs.value, validation_level)

\* A call that gives no validation_level: the parameter takes its default.
LevelNotGiven == "not given"

\* validation_level: ... = "exists", in both signatures.
validation_level_default == "exists"

LevelArgs == Levels \cup {LevelNotGiven}

\* The value of the validation_level parameter inside the call.
validation_level_of(arg) ==
  IF arg = LevelNotGiven THEN validation_level_default ELSE arg

\* Applied to a newly constructed manager: the call reads no registry.
validate_topics(topic_list, level_arg) ==
  /\ calls < 1
  /\ LET validation_level == validation_level_of(level_arg)
         r == validate_topics_call(topic_list, validation_level)
     IN  last' = [op |-> "validate_topics", topic_list |-> topic_list,
                  validation_level |-> validation_level,
                  level_given |-> level_arg # LevelNotGiven,
                  raised |-> r.raised, issues |-> r.issues,
                  inspect_calls |-> r.inspect_calls]
  /\ calls' = calls + 1
  /\ UNCHANGED <<manager_vars, frame_vars>>

validate_all_topics(level_arg) ==
  /\ calls < MaxCalls
  /\ LET validation_level == validation_level_of(level_arg)
         r == validate_all_topics_call(validation_level)
     IN  last' = [op |-> "validate_all_topics",
                  topic_list |-> topics \o changelog_topics,
                  validation_level |-> validation_level,
                  level_given |-> level_arg # LevelNotGiven,
                  raised |-> r.raised, issues |-> r.issues,
                  inspect_calls |-> r.inspect_calls]
  /\ calls' = calls + 1
  /\ UNCHANGED <<manager_vars, frame_vars>>

(***************************************************************************)
(* TopicManager.create_all_topics                                          *)
(***************************************************************************)
\* create_timeout: int = 60, kept by __init__ as self._create_timeout
_create_timeout == 60

\* The Admin collaborator's create_topics(configs, timeout), as the
\* specification states its contract: it either fails, and then the
\* broker is as it was, or the broker holds a topic for every config given,
\* a topic it already had being left as it is.
Admin_create_topics(configs, timeout, admin_ok) ==
  IF ~admin_ok
  THEN [raised |-> "AdminError", broker_after |-> broker]
  ELSE [raised |-> "",
        broker_after |->
          [n \in DOMAIN broker |->
             IF broker[n] = None /\ \E i \in 1..Len(configs) : configs[i].name = n
             THEN configs[CHOOSE i \in 1..Len(configs) : configs[i].name = n]
             ELSE broker[n]]]

\* _create_topics(topics): one create_topics call on the Admin, with the
\* timeout the manager was constructed with.
_create_topics(configs, admin_ok) ==
  LET r == Admin_create_topics(configs, _create_timeout, admin_ok)
  IN  [raised |-> r.raised, own_error |-> FALSE,
       admin_calls |-> <<[topics |-> configs, timeout |-> _create_timeout]>>,
       broker_after |-> r.broker_after]

\* create_all_topics(): self.all_topic_configs is evaluated before
\* _create_topics is entered; what it raises is raised by the manager.
create_all_topics_call(admin_ok) ==
  LET configs == all_topic_configs
  IN  IF configs.raised # ""
      THEN [raised |-> configs.raised, own_error |-> TRUE,
            admin_calls |-> <<>>, broker_after |-> broker]
      ELSE _create_topics(configs.value, admin_ok)

\* A create_all_topics call; it registers nothing, so it is not one of the
\* registering calls that "calls" counts.
create_all_topics(admin_ok) ==
  /\ LET r == create_all_topics_call(admin_ok)
     IN  /\ broker' = r.broker_after
         /\ last' = [op |-> "create_all_topics",
                     raised |-> r.raised, own_error |-> r.own_error,
                     admin_calls |-> r.admin_calls,
                     broker_before |-> broker]
  /\ UNCHANGED <<_topics, _changelog_topics, calls, frame_vars>>

(***************************************************************************)
(* TopicManager.__init__, and the inputs of the calls.                     *)
(***************************************************************************)
Constructed ==
  /\ dataframes = <<>>
  /\ pipelines = <<>>
  /\ _topics = EmptyDict
  /\ _changelog_topics = EmptyDict
  /\ calls = 0
  /\ last = [op |-> "__init__", raised |-> ""]

\* A new TopicManager (a restarted process) against the same broker.
Restart ==
  /\ calls > 0
  /\ _topics' = EmptyDict
  /\ _changelog_topics' = EmptyDict
  /\ calls' = 0
  /\ last' = [op |-> "__init__", raised |-> ""]
  /\ UNCHANGED <<broker, frame_vars>>

\* What the broker may hold for a topic: nothing, or a config whose
\* replication factor is not the manager's default.
BrokerConfigs(n) ==
  {None} \cup
  IF n = "orders"
  THEN {TopicConfig(n, p, _topic_replication + 1, RetentionAndDelete) :
          p \in Partitions}
  ELSE {TopicConfig(n, 1, _topic_replication, Retention100)}

\* The TopicConfigs a caller declares a topic with.
DeclaredConfigs(n) ==
  {TopicConfig(n, p, _topic_replication,
               IF n = "orders" THEN RetentionAndDelete ELSE Retention100) :
     p \in Partitions}

\* The (topic_config, auto_create_config) arguments of topic().
TopicArgs(n) ==
  {<<None, TRUE>>, <<None, FALSE>>} \cup
  {<<c, TRUE>> : c \in DeclaredConfigs(n)}

\* The configs_to_import arguments of changelog_topic().
ImportArgs ==
  {None, PySet({}), PySet({"cleanup.policy"}),
   PySet({"cleanup.policy", "retention.ms"})}

Init ==
  /\ broker \in {b \in [Names -> UNION {BrokerConfigs(n) : n \in Names}] :
                   \A n \in Names : b[n] \in BrokerConfigs(n)}
  /\ Constructed

Next ==
  \/ \E n \in Names : \E a \in TopicArgs(n) : topic(n, a[1], a[2])
  \/ \E n \in Names, sfx \in Suffixes, g \in Groups, imp \in ImportArgs :
       changelog_topic(n, sfx, g, imp)
  \/ \E lvl \in LevelArgs : validate_all_topics(lvl)
  \/ Restart

Spec == Init /\ [][Next]_vars

\* The manager's registry built up by topic and changelog_topic calls, and
\* create_all_topics called on it.
NextCreate ==
  \/ \E n \in Names : \E a \in TopicArgs(n) : topic(n, a[1], a[2])
  \/ \E n \in Names, sfx \in Suffixes, g \in Groups :
       changelog_topic(n, sfx, g, None)
  \/ \E admin_ok \in BOOLEAN : create_all_topics(admin_ok)

SpecCreate == Init /\ [][NextCreate]_vars

(***************************************************************************)
(* validate_topics as a function of the topics, the level and what the     *)
(* broker holds: it reads and changes no registry, so it is applied once   *)
(* to each choice of inputs.                                               *)
(***************************************************************************)
\* What the broker may hold for a topic that is validated.
ActualConfigs(n) ==
  {None} \cup
  {TopicConfig(n, p, r, e) :
     p \in Partitions, r \in Replications,
     e \in IF n = "orders" THEN ExtraConfigs ELSE {Retention100}}

\* The TopicConfigs a caller expects: each declares some extra_config key.
ExpectedConfigs(n) ==
  {TopicConfig(n, p, _topic_replication, e) :
     p \in Partitions,
     e \in IF n = "orders" THEN ExtraConfigs \ {EmptyMap}
           ELSE {Retention100}}

\* The lists validate_topics() is given: no topic, one, or the two in
\* either order.
TopicLists ==
  {<<>>} \cup
  {<<c>> : c \in UNION {ExpectedConfigs(n) : n \in Names}} \cup
  {<<c, d>> : c \in ExpectedConfigs("orders"), d \in ExpectedConfigs("events")} \cup
  {<<d, c>> : c \in ExpectedConfigs("orders"), d \in ExpectedConfigs("events")}

InitValidate ==
  /\ broker \in {b \in [Names -> UNION {ActualConfigs(n) : n \in Names}] :
                   \A n \in Names : b[n] \in ActualConfigs(n)}
  /\ Constructed

NextValidate ==
  \E tl \in TopicLists, lvl \in LevelArgs : validate_topics(tl, lvl)

SpecValidate == InitValidate /\ [][NextValidate]_vars

(***************************************************************************)
(* Properties.                                                             *)
(***************************************************************************)
ChangelogReturned == last.op = "changelog_topic" /\ last.raised = ""

\* The (source, suffix, Topic) entries of the changelog registry.
ChangelogEntries(registry) ==
  UNION {{[source |-> registry.items[i].key,
           suffix |-> registry.items[i].value.items[j].key,
           topic |-> registry.items[i].value.items[j].value] :
             j \in 1..Len(registry.items[i].value.items)} :
         i \in 1..Len(registry.items)}

\* C1: changelog_topic returns a Topic named exactly
\* changelog__{consumer_group}--{source_topic_name}--{suffix}; the name is
\* given by the three inputs alone, whatever the registries and the broker
\* hold, on a first call, a repeated call and after a restart; every Topic
\* of the changelog registry is named so for its source and suffix.
C1_ChangelogName ==
  /\ ChangelogReturned =>
       last.returned.name =
         "changelog__" \o last.consumer_group \o "--"
           \o last.source_topic_name \o "--" \o last.suffix
  /\ \A e \in ChangelogEntries(_changelog_topics) :
       \E g \in Groups :
         e.topic.name = "changelog__" \o g \o "--" \o e.source \o "--" \o e.suffix

\* C1 witness: a repeated call for ("orders", "default", "group1") on a
\* manager that already registered that changelog returns the same name.
C1_Witness ==
  /\ ChangelogReturned
  /\ last.consumer_group = "group1"
  /\ last.returned.name = "changelog__group1--orders--default"
  /\ \E e \in ChangelogEntries(last.changelog_before) :
       /\ e.source = "orders" /\ e.suffix = "default"
       /\ e.topic.name = "changelog__group1--orders--default"

ValidateDone == last.op = "validate_topics"

\* The topics of the validated list, by position.
Listed == 1..Len(last.topic_list)

Reported(i) == DictHas(last.issues, last.topic_list[i].name)

\* C2 (as claimed): a topic on the broker with the expected partition count
\* and replication factor, whose broker extra_config is the expected one
\* plus one key the caller did not declare, is reported at level "all" and
\* is not reported at level "required".
C2_ExtraKeyFlaggedAtAll ==
  ValidateDone =>
    \A i \in Listed :
      LET expected == last.topic_list[i]
          actual == broker[expected.name]
      IN  ( /\ actual # None
            /\ actual.num_partitions = expected.num_partitions
            /\ actual.replication_factor = expected.replication_factor
            /\ DOMAIN expected.extra_config \subseteq DOMAIN actual.extra_config
            /\ Cardinality(DOMAIN actual.extra_config
                             \ DOMAIN expected.extra_config) = 1
            /\ \A k \in DOMAIN expected.extra_config :
                 actual.extra_config[k] = expected.extra_config[k] )
          => /\ last.validation_level = "all" =>
                  last.raised = "TopicValidationError" /\ Reported(i)
             /\ last.validation_level = "required" => ~Reported(i)

\* C3 (as claimed): at level "exists" every requested topic the Admin maps
\* to None is recorded as "TOPIC MISSING" and TopicValidationError is
\* raised; a topic that exists is never reported.
C3_MissingReportedAtExists ==
  (ValidateDone /\ last.validation_level = "exists") =>
    \A i \in Listed :
      IF broker[last.topic_list[i].name] = None
      THEN /\ last.raised = "TopicValidationError"
           /\ Reported(i)
           /\ DictGet(last.issues, last.topic_list[i].name) = TopicMissing
      ELSE ~Reported(i)

\* C4 (as claimed): at every level but none, validate_topics raises one
\* TopicValidationError that has an entry for every offending topic, a
\* missing one ("TOPIC MISSING") as well as one whose partition count or
\* replication factor mismatches, and none for a topic that exists at level
\* "exists"; a missing topic never makes it raise another error.
C4_AllIssuesBatched ==
  (ValidateDone /\ last.validation_level # "none") =>
    \A i \in Listed :
      LET expected == last.topic_list[i]
          actual == broker[expected.name]
      IN  IF actual = None
          THEN /\ last.raised = "TopicValidationError"
               /\ Reported(i)
               /\ DictGet(last.issues, expected.name) = TopicMissing
          ELSE IF last.validation_level = "exists"
               THEN ~Reported(i)
               ELSE ( \/ actual.num_partitions # expected.num_partitions
                      \/ actual.replication_factor
                           # expected.replication_factor )
                    => last.raised = "TopicValidationError" /\ Reported(i)

\* The loop gets to position i: no topic before it is missing on the broker.
Reached(i) == \A j \in 1..(i - 1) : broker[last.topic_list[j].name] # None

\* C5 (as claimed): at level "required" an existing topic is reported iff
\* its partition count differs, or its replication factor differs, or the
\* broker's value of an extra_config key the caller specified differs.
C5_RequiredComparesCallerKeys ==
  (ValidateDone /\ last.validation_level = "required") =>
    \A i \in Listed :
      LET expected == last.topic_list[i]
          actual == broker[expected.name]
      IN  (actual # None /\ Reached(i)) =>
            ( Reported(i) <=>
                \/ actual.num_partitions # expected.num_partitions
                \/ actual.replication_factor # expected.replication_factor
                \/ \E k \in DOMAIN expected.extra_config :
                     \/ k \notin DOMAIN actual.extra_config
                     \/ actual.extra_config[k] # expected.extra_config[k] )

\* C5 (amended): at level "required" validate_topics records an existing
\* topic in its issue mapping iff the loop gets to it and its partition
\* count or its replication factor differs from the expected one;
\* extra_config is not compared at this level: no broker key, specified by
\* the caller or not, causes a report, and the pair recorded carries the
\* expected extra_config on both sides.
C5_RequiredComparesCounts ==
  (ValidateDone /\ last.validation_level = "required") =>
    \A i \in Listed :
      LET expected == last.topic_list[i]
          actual == broker[expected.name]
      IN  actual # None =>
            /\ Reported(i) <=>
                 /\ Reached(i)
                 /\ \/ actual.num_partitions # expected.num_partitions
                    \/ actual.replication_factor # expected.replication_factor
            /\ Reported(i) =>
                 LET issue == DictGet(last.issues, expected.name)
                 IN  /\ issue.expected = expected
                     /\ issue.actual =
                          [actual EXCEPT !.extra_config = expected.extra_config]

\* C5 witness: at level "required" the broker's value of a key the caller
\* specified differs, the counts agree, and the topic is not reported.
C5_Witness ==
  /\ ValidateDone /\ last.validation_level = "required"
  /\ last.raised = ""
  /\ \E i \in Listed :
       LET expected == last.topic_list[i]
           actual == broker[expected.name]
       IN  /\ actual # None
           /\ actual.num_partitions = expected.num_partitions
           /\ actual.replication_factor = expected.replication_factor
           /\ "retention.ms" \in DOMAIN expected.extra_config
           /\ "retention.ms" \in DOMAIN actual.extra_config
           /\ actual.extra_config["retention.ms"]
                # expected.extra_config["retention.ms"]
           /\ ~Reported(i)

\* C6 (as claimed): with validation level none, validate_topics and
\* validate_all_topics raise nothing and never ask the Admin, whatever the
\* registries hold.
C6_NoneIsNoOp ==
  ( /\ last.op \in {"validate_topics", "validate_all_topics"}
    /\ last.validation_level = "none" )
  => last.raised = "" /\ last.inspect_calls = 0

\* The positions of the topics property that hold a Topic named n.
TopicsNamed(n) == {i \in 1..Len(topics) : topics[i].name = n}

\* C7: the topics property holds exactly one Topic for every registered
\* name; after topic() that Topic is the one the call returned, whether or
\* not the name was registered before, and the entries of the other names
\* are the ones from before the call.
C7_LastRegistrationWins ==
  /\ \A n \in DictKeys(_topics) : Cardinality(TopicsNamed(n)) = 1
  /\ \A i \in 1..Len(topics) : topics[i].name \in DictKeys(_topics)
  /\ last.op = "topic" =>
       LET n == _apply_topic_prefix(last.name)
       IN  /\ DictKeys(_topics) = DictKeys(last.topics_before) \cup {n}
           /\ \A i \in TopicsNamed(n) : topics[i] = last.returned
           /\ \A k \in DictKeys(last.topics_before) \ {n} :
                DictGet(_topics, k) = DictGet(last.topics_before, k)

\* C7 witness: topic() for a name that was registered with another config.
C7_Witness ==
  /\ last.op = "topic"
  /\ DictHas(last.topics_before, last.name)
  /\ DictGet(last.topics_before, last.name) # last.returned
  /\ Len(topics) = 1

\* The source topic's config in the registry a changelog_topic call found.
LocalSource ==
  IF DictHas(last.topics_before, last.source_topic_name)
  THEN DictGet(last.topics_before, last.source_topic_name).topic_config
  ELSE None

\* C8 (as claimed): when the broker has no source topic and the source
\* topic was never declared, or was declared without a TopicConfig,
\* changelog_topic raises MissingTopicForChangelog and registers nothing.
C8_MissingSourceRaises ==
  ( /\ last.op = "changelog_topic"
    /\ broker[last.source_topic_name] = None
    /\ LocalSource = None )
  => /\ last.raised = "MissingTopicForChangelog"
     /\ _changelog_topics = last.changelog_before

\* C9: the partition count and the replication factor of a changelog topic
\* are those of the source topic on the broker whenever the broker has it,
\* whatever a registered Topic of that name declares; they are those of the
\* registered source Topic only when the broker has no such topic.
C9_BrokerConfigFirst ==
  ChangelogReturned =>
    LET actual == broker[last.source_topic_name]
        base == IF actual # None THEN actual ELSE LocalSource
    IN  /\ base # None
        /\ last.returned.topic_config.num_partitions = base.num_partitions
        /\ last.returned.topic_config.replication_factor
             = base.replication_factor

\* C9 witness: the broker has the source topic and a registered Topic of
\* the same name declares another partition count and replication factor.
C9_Witness ==
  /\ ChangelogReturned
  /\ broker[last.source_topic_name] # None
  /\ LocalSource # None
  /\ LocalSource.num_partitions # broker[last.source_topic_name].num_partitions
  /\ LocalSource.replication_factor
       # broker[last.source_topic_name].replication_factor

\* C10: every Topic changelog_topic returns and every Topic of the
\* changelog registry has extra_config["cleanup.policy"] = "compact",
\* whatever cleanup.policy the source topic has and whether or not the
\* caller lists "cleanup.policy" in configs_to_import.
C10_AlwaysCompacted ==
  /\ ChangelogReturned =>
       /\ "cleanup.policy" \in DOMAIN last.returned.topic_config.extra_config
       /\ last.returned.topic_config.extra_config["cleanup.policy"] = "compact"
  /\ \A i \in 1..Len(changelog_topics) :
       /\ "cleanup.policy" \in DOMAIN changelog_topics[i].topic_config.extra_config
       /\ changelog_topics[i].topic_config.extra_config["cleanup.policy"]
            = "compact"

\* C10 witness: the source topic has cleanup.policy = delete and the caller
\* lists "cleanup.policy" among the configs to import.
C10_Witness ==
  /\ ChangelogReturned
  /\ last.configs_to_import # None
  /\ "cleanup.policy" \in last.configs_to_import.elems
  /\ LET base == IF broker[last.source_topic_name] # None
                 THEN broker[last.source_topic_name] ELSE LocalSource
     IN  /\ "cleanup.policy" \in DOMAIN base.extra_config
         /\ base.extra_config["cleanup.policy"] = "delete"
  /\ last.returned.topic_config.extra_config["cleanup.policy"] = "compact"

\* The base config a changelog_topic call resolved: the broker's, else the
\* registered source Topic's as the call found it.
ChangelogBase ==
  IF broker[last.source_topic_name] # None
  THEN broker[last.source_topic_name] ELSE LocalSource

\* C11 (as claimed): for every configs_to_import set the caller passes,
\* the empty set included, every extra_config key of the changelog topic
\* other than "cleanup.policy" is a member of that set and carries the
\* source topic's value; the default import set is used only when the
\* caller passes no set at all.
C11_OnlyListedKeysImported ==
  ChangelogReturned =>
    LET listed == IF last.configs_to_import = None
                  THEN _changelog_extra_config_imports_defaults
                  ELSE last.configs_to_import.elems
        extra == last.returned.topic_config.extra_config
    IN  \A k \in (DOMAIN extra) \ {"cleanup.policy"} :
          /\ k \in listed
          /\ k \in DOMAIN ChangelogBase.extra_config
          /\ extra[k] = ChangelogBase.extra_config[k]

\* The entries of a changelog registry for other (source, suffix) pairs
\* than the one the last changelog_topic call was made for.
OtherEntries(registry) ==
  {e \in ChangelogEntries(registry) :
     ~(e.source = last.source_topic_name /\ e.suffix = last.suffix)}

\* C12 (as claimed): the changelog registry holds exactly one Topic per
\* derived (source_topic_name, suffix) pair, the one of the most recent
\* call for it; a call leaves the entries of every other pair as they
\* were, a failed call leaves the registry as it was, and no call adds to
\* or changes the ordinary topics registry.
C12_OneEntryPerPair ==
  last.op = "changelog_topic" =>
    LET after == ChangelogEntries(_changelog_topics)
    IN  /\ \A e, f \in after :
             (e.source = f.source /\ e.suffix = f.suffix) => e = f
        /\ OtherEntries(_changelog_topics) = OtherEntries(last.changelog_before)
        /\ IF last.raised = ""
           THEN [source |-> last.source_topic_name, suffix |-> last.suffix,
                 topic |-> last.returned] \in after
           ELSE _changelog_topics = last.changelog_before
        /\ _topics = last.topics_before

\* C19 (as claimed): when validate_topics or validate_all_topics is called
\* without a validation level, an existing topic whose partition count or
\* replication factor differs from the expected config is reported as an
\* issue.
C19_DefaultChecksCounts ==
  ( /\ last.op \in {"validate_topics", "validate_all_topics"}
    /\ ~last.level_given
    /\ last.raised \in {"", "TopicValidationError"} )
  => \A i \in Listed :
       LET expected == IF last.topic_list[i].kind = "Topic"
                       THEN last.topic_list[i].topic_config
                       ELSE last.topic_list[i]
           actual == broker[expected.name]
       IN  ( /\ Reached(i)
             /\ actual # None
             /\ \/ actual.num_partitions # expected.num_partitions
                \/ actual.replication_factor # expected.replication_factor )
           => last.raised = "TopicValidationError" /\ Reported(i)

\* C20 (as claimed): changelog_topic works on a copy of the import
\* allow-list: the set the caller passed has the same members after the
\* call as before it, "cleanup.policy" included, and the class-level
\* default import set still is {retention.bytes, retention.ms}.
C20_CallerSetUntouched ==
  last.op = "changelog_topic" =>
    /\ last.imports_after = last.configs_to_import
    /\ last.defaults_after = {"retention.bytes", "retention.ms"}

\* The source topic's config in the registry after a changelog_topic call.
SourceAfter ==
  IF DictHas(_topics, last.source_topic_name)
  THEN DictGet(_topics, last.source_topic_name).topic_config
  ELSE None

\* C21 (as claimed): when changelog_topic takes its base config from the
\* locally registered source Topic (the broker has no such topic), the
\* source Topic's TopicConfig in the topics registry has the same
\* num_partitions, replication_factor and extra_config, every key
\* included, after the call as before it.
C21_SourceTopicUnchanged ==
  ( /\ last.op = "changelog_topic"
    /\ last.raised = ""
    /\ last.origin = "local" )
  => /\ SourceAfter.num_partitions = LocalSource.num_partitions
     /\ SourceAfter.replication_factor = LocalSource.replication_factor
     /\ SourceAfter.extra_config = LocalSource.extra_config

\* The TopicConfigs of the registered topics that have one.
RegisteredConfigs ==
  {topics[i].topic_config : i \in {j \in 1..Len(topics) : Truthy(topics[j].topic_config)}}

\* The TopicConfigs of the registered changelog topics.
ChangelogConfigs ==
  {changelog_topics[i].topic_config : i \in 1..Len(changelog_topics)}

\* C22 (as claimed): for every registry content, an empty registry and one
\* holding a topic without a TopicConfig included, create_all_topics raises
\* no error of its own and makes one create_topics call on the Admin, with
\* the configured creation timeout, for exactly the TopicConfigs of the
\* registered topics that have one and of all registered changelog topics.
C22_CreateAllDelegates ==
  last.op = "create_all_topics" =>
    /\ ~last.own_error
    /\ Len(last.admin_calls) = 1
    /\ last.admin_calls[1].timeout = _create_timeout
    /\ LET given == last.admin_calls[1].topics
       IN  /\ {given[i] : i \in 1..Len(given)}
                = RegisteredConfigs \cup ChangelogConfigs
           /\ \A i, j \in 1..Len(given) : given[i] = given[j] => i = j

(***************************************************************************)
(* Rows and the expression engine (Column / PipelineField).  Their modules *)
(* are not part of the sources at hand; they are modelled from the         *)
(* specification's data model and section 4.1, and the tests of            *)
(* test_pipeline.py give the values expected of them.                      *)
(***************************************************************************)
\* A Row: its value and the provenance carried with it.
Row(value, key, offset) ==
  [kind |-> "Row", value |-> value, key |-> key, offset |-> offset]

\* A Row's value that is a mapping from field names to integers.
Mapping(fields) == [kind |-> "dict", fields |-> fields]

\* Row.clone(value=...): the same provenance, another value.
clone(row, value) == [row EXCEPT !.value = value]

\* Column(col_name) / PipelineField(name): a reference to a field.
Column(col_name) == [kind |-> "ref", name |-> col_name]

\* An operand that is no expression is a literal.
Literal(v) == [kind |-> "lit", v |-> v]

\* left <op> right, as the operators build it.
Operation(op, left, right) ==
  [kind |-> "op", op |-> op, left |-> left, right |-> right]

Arithmetic == {"+", "-", "*", "/", "%"}
Comparisons == {"==", "!=", "<", "<=", ">", ">="}

Abs(n) == IF n < 0 THEN 0 - n ELSE n

RECURSIVE GCD(_, _)
GCD(a, b) == IF b = 0 THEN a ELSE GCD(b, a % b)

\* The float a true division of two integers gives, as a reduced fraction.
Float(n, d) ==
  LET g == GCD(Abs(n), Abs(d))
      sign == IF d < 0 THEN 0 - 1 ELSE 1
  IN  [kind |-> "float", num |-> sign * (n \div g), den |-> sign * (d \div g)]

\* A changed operator application: the operands are taken in the other
\* order.
operate_swapped(op, a, b) ==
  CASE op = "+"  -> b + a
    [] op = "-"  -> b - a
    [] op = "*"  -> b * a
    [] op = "/"  -> Float(b, a)
    [] op = "%"  -> b % a
    [] op = "==" -> b = a
    [] op = "!=" -> b # a
    [] op = "<"  -> b < a
    [] op = "<=" -> b <= a
    [] op = ">"  -> b > a
    [] op = ">=" -> b >= a

\* The host language's operator applied to two integers (a positive right
\* operand for / and %).
operate(op, a, b) ==
  CASE op = "+"  -> a + b
    [] op = "-"  -> a - b
    [] op = "*"  -> a * b
    [] op = "/"  -> Float(a, b)
    [] op = "%"  -> a % b
    [] op = "==" -> a = b
    [] op = "!=" -> a # b
    [] op = "<"  -> a < b
    [] op = "<=" -> a <= b
    [] op = ">"  -> a > b
    [] op = ">=" -> a >= b

\* Column.eval(row): field references are looked up in the row's value,
\* operations are reduced from the leaves.
RECURSIVE eval(_, _)
eval(column, row) ==
  CASE column.kind = "ref" -> row.value.fields[column.name]
    [] column.kind = "lit" -> column.v
    [] column.kind = "op"  ->
         operate(column.op, eval(column.left, row), eval(column.right, row))

\* The record of the tests (the sample_message fixture) and another one.
SampleFields == [f \in {"x", "y", "z", "x2"} |->
                   CASE f = "x" -> 5 [] f = "y" -> 20 [] f = "z" -> 110
                     [] f = "x2" -> 5]
OtherFields == [f \in {"x", "y", "z", "x2"} |->
                  CASE f = "x" -> 7 [] f = "y" -> 3 [] f = "z" -> 3
                    [] f = "x2" -> 8]
sample_message == Row(Mapping(SampleFields), "key1", 0)
Messages == {sample_message, Row(Mapping(OtherFields), "key2", 1)}

\* The expressions evaluated: a field and a field or a literal under any
\* operator, and such a sum or difference under a further operator.
Columns == {Column(f) : f \in DOMAIN SampleFields}
Operands == Columns \cup {Literal(2)}
SimpleOperations ==
  {Operation(op, l, r) :
     op \in Arithmetic \cup Comparisons, l \in Columns, r \in Operands}
ChainedOperations ==
  {Operation(op, Operation(first, a, b), r) :
     op \in Arithmetic \cup Comparisons, first \in {"+", "-"},
     a \in Columns, b \in Columns, r \in Operands}

\* result = expression.eval(row), on a row that has the fields.
evaluate(column, row) ==
  /\ calls < 1
  /\ last' = [op |-> "eval", column |-> column, row |-> row,
              row_after |-> row, result |-> eval(column, row)]
  /\ calls' = calls + 1
  /\ UNCHANGED <<manager_vars, frame_vars>>

InitEval ==
  /\ broker = [n \in Names |-> None]
  /\ Constructed

NextEval ==
  \E column \in SimpleOperations \cup ChainedOperations, row \in Messages :
    evaluate(column, row)

SpecEval == InitEval /\ [][NextEval]_vars

\* The evaluation of column gave v.
Gives(column, v) == last.column = column => last.result = v

\* C18: an expression built from two field references, or a field
\* reference and a literal, evaluates to the operator applied to the
\* looked-up values, chained operations associate to the left, and the
\* record is left unchanged; on {x:5, y:20, z:110, x2:5} the values are
\* those the tests expect.
C18_OperatorsEvaluate ==
  last.op = "eval" =>
    /\ last.row_after = last.row
    /\ \A op \in Arithmetic \cup Comparisons, l \in Columns, r \in Operands :
         LET a == last.row.value.fields[l.name]
             b == IF r.kind = "lit" THEN r.v ELSE last.row.value.fields[r.name]
         IN  last.column = Operation(op, l, r) =>
               CASE op = "+" -> last.result = a + b
                 [] op = "-" -> last.result + b = a
                 [] op = "*" -> last.result = a * b
                 [] op = "/" -> last.result.num * b = a * last.result.den
                 [] op = "%" -> /\ last.result \in 0..(b - 1)
                                /\ \E q \in 0..a : a = q * b + last.result
                 [] op = "==" -> last.result <=> (a = b)
                 [] op = "!=" -> last.result <=> ~(a = b)
                 [] op = "<" -> last.result <=> (a < b)
                 [] op = "<=" -> last.result <=> ~(b < a)
                 [] op = ">" -> last.result <=> (b < a)
                 [] op = ">=" -> last.result <=> ~(a < b)
    /\ last.row = sample_message =>
         /\ Gives(Operation("+", Column("x"), Column("y")), 25)
         /\ Gives(Operation("+", Operation("+", Column("x"), Column("y")),
                            Column("z")), 135)
         /\ Gives(Operation("+", Column("x"), Literal(2)), 7)
         /\ Gives(Operation("-", Column("y"), Column("x")), 15)
         /\ Gives(Operation("*", Column("x"), Column("y")), 100)
         /\ Gives(Operation("/", Column("z"), Column("y")),
                  [kind |-> "float", num |-> 11, den |-> 2])
         /\ Gives(Operation("%", Column("y"), Column("x")), 0)
         /\ Gives(Operation("==", Column("x"), Column("x2")), TRUE)
         /\ Gives(Operation("==", Column("x"), Column("y")), FALSE)
         /\ Gives(Operation("!=", Column("x"), Column("y")), TRUE)
         /\ Gives(Operation("!=", Column("x"), Column("x2")), FALSE)
         /\ Gives(Operation("<", Column("x"), Column("y")), TRUE)
         /\ Gives(Operation("<", Column("y"), Column("x")), FALSE)
         /\ Gives(Operation("<=", Column("x"), Column("x2")), TRUE)
         /\ Gives(Operation("<=", Column("x"), Column("y")), TRUE)
         /\ Gives(Operation("<=", Column("y"), Column("x")), FALSE)
         /\ Gives(Operation(">", Column("y"), Column("x")), TRUE)
         /\ Gives(Operation(">", Column("x"), Column("y")), FALSE)
         /\ Gives(Operation(">=", Column("x"), Column("x2")), TRUE)
         /\ Gives(Operation(">=", Column("y"), Column("x")), TRUE)
         /\ Gives(Operation(">=", Column("x"), Column("y")), FALSE)

\* C18 witness: x + y + z was evaluated on the record of the tests and
\* gave 135.
C18_Witness ==
  /\ last.op = "eval"
  /\ last.row = sample_message
  /\ last.column = Operation("+", Operation("+", Column("x"), Column("y")),
                             Column("z"))
  /\ last.result = 135

(***************************************************************************)
(* The steps a StreamingDataFrame appends to its Pipeline: the module-level *)
(* functions of dataframe.py and the lambdas of its builder methods.       *)
(***************************************************************************)
PyList(items) == [kind |-> "list", items |-> items]

PyInt(v) == [kind |-> "int", v |-> v]

\* The user functions handed to apply(): what each returns for a value and
\* the value as it leaves it.
\*   "in_place" adds 1 to value["x"] and returns None;
\*   "as_dict"  returns the new mapping {"x": 0};
\*   "as_list"  returns the mappings {"x": x} and {"x": x + 1};
\*   "as_int"   returns an int.
Funcs == {"in_place", "as_dict", "as_list", "as_int"}

func_call(func, value) ==
  CASE func = "in_place" ->
         [returned |-> None,
          value |-> Mapping([value.fields EXCEPT !["x"] = @ + 1])]
    [] func = "as_dict" ->
         [returned |-> Mapping([f \in {"x"} |-> 0]), value |-> value]
    [] func = "as_list" ->
         [returned |-> PyList(<<Mapping([f \in {"x"} |-> value.fields["x"]]),
                                Mapping([f \in {"x"} |-> value.fields["x"] + 1])>>),
          value |-> value]
    [] func = "as_int" ->
         [returned |-> PyInt(value.fields["x"]), value |-> value]

\* A changed apply: a list is expanded whatever expand says.
apply_always_expanding(row, func, expand) ==
  LET called == func_call(func, row.value)
      result == called.returned
      edited == [row EXCEPT !.value = called.value]
  IN  IF result = None /\ edited.value.kind = "dict"
      THEN Returned(edited)
      ELSE IF result.kind = "dict"
      THEN Returned([edited EXCEPT !.value = result])
      ELSE IF result.kind = "list"
      THEN Returned(PyList([i \in 1..Len(result.items) |->
                              clone(edited, result.items[i])]))
      ELSE Raised("InvalidApplyResultType")

\* A changed apply: the members of an expansion come in the reverse order.
apply_reversed(row, func, expand) ==
  LET called == func_call(func, row.value)
      result == called.returned
      edited == [row EXCEPT !.value = called.value]
  IN  IF result = None /\ edited.value.kind = "dict"
      THEN Returned(edited)
      ELSE IF result.kind = "dict"
      THEN Returned([edited EXCEPT !.value = result])
      ELSE IF result.kind = "list"
      THEN IF expand
           THEN Returned(PyList([i \in 1..Len(result.items) |->
                                   clone(edited,
                                         result.items[Len(result.items) + 1 - i])]))
           ELSE Raised("InvalidApplyResultType")
      ELSE Raised("InvalidApplyResultType")

\* apply(row, func, expand): row is the Row object func's argument
\* row.value belongs to, so an edit func makes in place is an edit of row.
apply(row, func, expand) ==
  LET called == func_call(func, row.value)
      result == called.returned
      edited == [row EXCEPT !.value = called.value]
  IN  IF result = None /\ edited.value.kind = "dict"
      THEN Returned(edited)
      ELSE IF result.kind = "dict"
      THEN Returned([edited EXCEPT !.value = result])
      ELSE IF result.kind = "list"
      THEN IF expand
           THEN Returned(PyList([i \in 1..Len(result.items) |->
                                   clone(edited, result.items[i])]))
           ELSE Raised("InvalidApplyResultType")
      ELSE Raised("InvalidApplyResultType")

\* subset(keys, row): row.value = row[keys]
subset(keys, row) ==
  IF \E i \in 1..Len(keys) : keys[i] \notin DOMAIN row.value.fields
  THEN Raised("KeyError")
  ELSE Returned([row EXCEPT !.value =
                   Mapping([k \in {keys[i] : i \in 1..Len(keys)} |->
                              row.value.fields[k]])])

\* setitem(k, v, row): row[k] = v.eval(row) if isinstance(v, Column) else v
setitem(k, v, row) ==
  LET new == IF v.kind \in {"ref", "op"} THEN eval(v, row) ELSE v.v
  IN  Returned([row EXCEPT !.value =
                  Mapping((k :> new) @@ row.value.fields)])

\* A changed filter: the row is passed on whatever the column evaluates to.
column_filter_passing(column, row) == Returned(row)

\* lambda row: row if item.eval(row) else None
column_filter(column, row) ==
  Returned(IF eval(column, row) THEN row ELSE None)

\* The producer a dataframe is given.
RowProducer == [kind |-> "RowProducer"]

\* StreamingDataFrame._produce(topic, row): self.producer raises when no
\* producer was provided; else produce_row(row, topic) and the row is
\* returned.  "produced" are the produce_row calls made.
_produce(df, out_topic, row) ==
  IF df._real_producer = None
  THEN [raised |-> "RuntimeError", value |-> None, produced |-> <<>>]
  ELSE [raised |-> "", value |-> row,
        produced |-> <<[row |-> row, topic |-> out_topic]>>]

\* A step that makes no produce_row call.
Quiet(outcome) ==
  [raised |-> outcome.raised, value |-> outcome.value, produced |-> <<>>]

\* The RowAppliers handed to the PythonClient's apply(): spies that return
\* the row they are given.
Appliers == {"A", "B"}

\* A step of a chain called with a row, for the dataframe df it was
\* appended through.
step_call(df, step, row) ==
  CASE step.kind = "apply"   -> Quiet(apply(row, step.func, step.expand))
    [] step.kind = "produce" -> _produce(df, step.topic, row)
    [] step.kind = "setitem" -> Quiet(setitem(step.key, step.value, row))
    [] step.kind = "filter"  -> Quiet(column_filter(step.column, row))
    [] step.kind = "subset"  -> Quiet(subset(step.keys, row))
    [] step.kind = "applier" -> Quiet(Returned(row))

(***************************************************************************)
(* Pipeline.  Its module is not part of the sources at hand; it is         *)
(* modelled from section 4.2 of the specification: process folds a record  *)
(* through the steps in order; Absent stops, a list branches into the      *)
(* remaining steps depth-first and left to right, results are flattened,   *)
(* and an exception of a step propagates.                                  *)
(***************************************************************************)
\* The outcome of a fold: what it raises or returns, the step calls made
\* (events, in order) and the produce_row calls made (in order).
Folded(raised, result, events, produced) ==
  [raised |-> raised, result |-> result, events |-> events,
   produced |-> produced]

\* Joins what was folded first with what was folded after it.
FoldThen(first, rest, result) ==
  Folded(rest.raised, result, first.events \o rest.events,
         first.produced \o rest.produced)

\* The flattened result of a branch: a dropped member adds nothing, a
\* member that branched again adds its records.
Flattened(so_far, result) ==
  IF result = None THEN so_far
  ELSE IF result.kind = "list" THEN PyList(so_far.items \o result.items)
  ELSE PyList(Append(so_far.items, result))

RECURSIVE process_from(_, _, _, _, _)
RECURSIVE process_members(_, _, _, _, _, _, _)

\* The fold of row through steps[i..], for the branch member at path.
process_from(df, steps, i, row, path) ==
  IF i > Len(steps)
  THEN Folded("", row, <<>>, <<>>)
  ELSE
    LET called == step_call(df, steps[i], row)
        event == [step |-> i, path |-> path, row |-> row,
                  raised |-> called.raised, returned |-> called.value]
        first == Folded("", None, <<event>>, called.produced)
        next == called.value
    IN  IF called.raised # ""
        THEN Folded(called.raised, None, <<event>>, called.produced)
        ELSE IF next = None
        THEN first
        ELSE IF next.kind = "list"
        THEN process_members(df, steps, i + 1, next.items, 1, path,
                             Folded("", PyList(<<>>), <<event>>,
                                    called.produced))
        ELSE LET rest == process_from(df, steps, i + 1, next, path)
             IN  FoldThen(first, rest, rest.result)

\* The members of a branch, from member k on, each through steps[i..].
process_members(df, steps, i, members, k, path, so_far) ==
  IF k > Len(members)
  THEN so_far
  ELSE
    LET rest == process_from(df, steps, i, members[k], Append(path, k))
    IN  IF rest.raised # ""
        THEN FoldThen(so_far, rest, None)
        ELSE process_members(df, steps, i, members, k + 1, path,
                             FoldThen(so_far, rest,
                                      Flattened(so_far.result, rest.result)))

\* Pipeline.process(row)
Pipeline_process(df, steps, row) == process_from(df, steps, 1, row, <<>>)

\* Pipeline.apply(func): the step is appended.
Pipeline_apply(steps, step) == Append(steps, step)

\* Pipeline.clone(): a new Pipeline with the same steps.
Pipeline_clone(steps) == steps

(***************************************************************************)
(* StreamingDataFrame of StreamingDataFrames/streamingdataframes/dataframe *)
(* dataframe.py.  dataframes holds the StreamingDataFrame objects and      *)
(* pipelines the step sequence of each Pipeline object; an object is       *)
(* referred to by its position.                                            *)
(***************************************************************************)
MaxSteps == 3

\* Pipeline(_id=...): a new Pipeline object without steps.
NewPipeline == Len(pipelines) + 1

\* self._pipeline's steps.
StepsOf(d) == pipelines[dataframes[d]._pipeline]

\* The input topic and the topics rows are sent to.
InputTopic == Topic("input", "bytes", "bytes", "bytes", "bytes", None)
OutTopics == {Topic(n, "bytes", "bytes", "bytes", "bytes", None) :
                n \in {"out1", "out2"}}

\* The topics_in arguments of the constructor.
TopicsInArgs == {<<>>, <<InputTopic>>}

\* {t.name: t for t in topics_in}
RECURSIVE by_name(_)
by_name(topic_list) ==
  IF topic_list = <<>> THEN EmptyDict
  ELSE LET t == topic_list[Len(topic_list)]
       IN  DictSet(by_name(SubSeq(topic_list, 1, Len(topic_list) - 1)),
                   t.name, t)

\* What a builder call or a constructor leaves in last.
Built(op, d, raised, returned) ==
  [op |-> op, df |-> d, raised |-> raised, returned |-> returned,
   dataframes_before |-> dataframes, pipelines_before |-> pipelines]

\* StreamingDataFrame(topics_in): one dataframe is built.
StreamingDataFrame_init(topics_in) ==
  /\ dataframes = <<>>
  /\ IF ~(topics_in # <<>>)
     THEN \* the object is not built and its Pipeline is not kept
          /\ last' = Built("StreamingDataFrame", 0, "ValueError", None)
          /\ UNCHANGED <<dataframes, pipelines>>
     ELSE /\ pipelines' = Append(pipelines, <<>>)
          /\ dataframes' = Append(dataframes,
                                  [kind |-> "StreamingDataFrame",
                                   _pipeline |-> NewPipeline,
                                   _real_producer |-> None,
                                   _topics_in |-> by_name(topics_in),
                                   _topics_out |-> EmptyDict])
          /\ last' = Built("StreamingDataFrame", Len(dataframes) + 1, "",
                           Len(dataframes) + 1)
  /\ UNCHANGED <<manager_vars, calls>>

\* self._apply(func): self._pipeline.apply(func); return self
_apply(d, step) ==
  pipelines' = [pipelines EXCEPT ![dataframes[d]._pipeline] =
                  Pipeline_apply(@, step)]

\* The chain a dataframe may still be extended.
Extensible(d) ==
  /\ d \in 1..Len(dataframes)
  /\ Len(StepsOf(d)) < MaxSteps

\* The (func, expand) arguments of apply(): expand is also given for the
\* functions that return a list or an int.
ApplyArgs ==
  {<<func, FALSE>> : func \in Funcs} \cup
  {<<func, TRUE>> : func \in {"as_list", "as_int"}}

\* StreamingDataFrame.apply(func, expand)
StreamingDataFrame_apply(d, func, expand) ==
  /\ Extensible(d)
  /\ _apply(d, [kind |-> "apply", func |-> func, expand |-> expand])
  /\ last' = Built("apply", d, "", d)
  /\ UNCHANGED <<manager_vars, calls, dataframes>>

\* A changed to_topic: the step is appended, the topic is not recorded.
to_topic_unrecorded(d, out_topic) ==
  /\ Extensible(d)
  /\ _apply(d, [kind |-> "produce", topic |-> out_topic])
  /\ last' = Built("to_topic", d, "", d) @@ [topic |-> out_topic]
  /\ UNCHANGED <<manager_vars, calls, dataframes>>

\* StreamingDataFrame.to_topic(topic)
to_topic(d, out_topic) ==
  /\ Extensible(d)
  /\ dataframes' = [dataframes EXCEPT ![d]._topics_out =
                      DictSet(@, out_topic.name, out_topic)]
  /\ _apply(d, [kind |-> "produce", topic |-> out_topic])
  /\ last' = Built("to_topic", d, "", d) @@ [topic |-> out_topic]
  /\ UNCHANGED <<manager_vars, calls>>

\* StreamingDataFrame.producer = producer
producer_setter(d) ==
  /\ d \in 1..Len(dataframes)
  /\ dataframes[d]._real_producer = None
  /\ dataframes' = [dataframes EXCEPT ![d]._real_producer = RowProducer]
  /\ last' = Built("producer", d, "", None)
  /\ UNCHANGED <<manager_vars, calls, pipelines>>

\* The column of a filter: x is even.
IsEven ==
  Operation("==", Operation("%", Column("x"), Literal(2)), Literal(0))

\* The items a dataframe is indexed with: a Column, a list of names, a
\* StreamingDataFrame, a name.
Items == {IsEven, PyList(<<"x">>), [kind |-> "StreamingDataFrame"],
          [kind |-> "str", v |-> "x"]}

\* StreamingDataFrame.__setitem__(key, value)
__setitem__(d, key, value) ==
  /\ Extensible(d)
  /\ _apply(d, [kind |-> "setitem", key |-> key, value |-> value])
  /\ last' = Built("__setitem__", d, "", None)
  /\ UNCHANGED <<manager_vars, calls, dataframes>>

\* StreamingDataFrame.__getitem__(item)
__getitem__(d, item) ==
  /\ Extensible(d)
  /\ IF item.kind \in {"ref", "op"}
     THEN /\ _apply(d, [kind |-> "filter", column |-> item])
          /\ last' = Built("__getitem__", d, "", d)
     ELSE IF item.kind = "list"
     THEN /\ _apply(d, [kind |-> "subset", keys |-> item.items])
          /\ last' = Built("__getitem__", d, "", d)
     ELSE IF item.kind = "StreamingDataFrame"
     THEN /\ last' = Built("__getitem__", d, "ValueError", None)
          /\ UNCHANGED pipelines
     ELSE /\ last' = Built("__getitem__", d, "", Column(item.v))
          /\ UNCHANGED pipelines
  /\ UNCHANGED <<manager_vars, calls, dataframes>>

\* The rows processed.
Rows == {Row(Mapping([f \in {"x"} |-> 1]), "key1", 0),
         Row(Mapping([f \in {"x"} |-> 2]), "key2", 1)}

\* StreamingDataFrame.process(row)
process(d, row) ==
  /\ d \in 1..Len(dataframes)
  /\ LET r == Pipeline_process(dataframes[d], StepsOf(d), row)
     IN  last' = [op |-> "process", df |-> d, row |-> row,
                  steps |-> StepsOf(d),
                  raised |-> r.raised, result |-> r.result,
                  events |-> r.events, produced |-> r.produced]
  /\ UNCHANGED <<manager_vars, calls, frame_vars>>

InitFrame ==
  /\ broker = [n \in Names |-> None]
  /\ Constructed

NextFrame ==
  \/ \E topics_in \in TopicsInArgs : StreamingDataFrame_init(topics_in)
  \/ \E d \in 1..Len(dataframes) :
       \/ \E a \in ApplyArgs : StreamingDataFrame_apply(d, a[1], a[2])
       \/ \E t \in OutTopics : to_topic(d, t)
       \/ producer_setter(d)
       \/ __setitem__(d, "seen", Literal(1))
       \/ \E item \in Items : __getitem__(d, item)
       \/ \E row \in Rows : process(d, row)

SpecFrame == InitFrame /\ [][NextFrame]_vars

(***************************************************************************)
(* Properties of processing a row through a dataframe's chain.  An event   *)
(* of last.events is one call of a step: the step's position, the branch   *)
(* member it was called for (its path through the expansions), the row it  *)
(* was given and what it returned or raised.                               *)
(***************************************************************************)
ProcessDone == last.op = "process"

Events == 1..Len(last.events)

IsPrefix(p, q) == Len(p) <= Len(q) /\ SubSeq(q, 1, Len(p)) = p

\* The step call e returned Absent.
ReturnedAbsent(e) ==
  last.events[e].raised = "" /\ last.events[e].returned = None

\* A later step was called for the record of call e, or for a record
\* derived from it.
CalledLater(e) ==
  \E f \in Events :
    /\ last.events[f].step > last.events[e].step
    /\ IsPrefix(last.events[e].path, last.events[f].path)

\* The step call e was made for the record process was given, not for a
\* member of an expansion.
OfGivenRecord(e) == last.events[e].path = <<>>

\* C13 (as claimed): once a step returns Absent for a record, no later
\* step is executed for that record and the overall result of process is
\* Absent, for every chain of steps.
C13_AbsentResultAlways ==
  ProcessDone =>
    \A e \in Events :
      ReturnedAbsent(e) => /\ ~CalledLater(e)
                           /\ last.result = None

\* C13 (amended): a filter step returns Absent for a record its column is
\* falsy for; once a step returns Absent for a record, no later step of
\* the chain is called for it, a to_topic step included, and process
\* returns Absent when the record is the one it was given (for a member
\* of an expansion the other members go on).
C13_AbsentStopsChain ==
  ProcessDone =>
    /\ \A e \in Events :
         LET step == last.steps[last.events[e].step]
         IN  ( /\ step.kind = "filter"
               /\ ~eval(step.column, last.events[e].row) )
             => ReturnedAbsent(e)
    /\ \A e \in Events :
         ReturnedAbsent(e) =>
           /\ ~CalledLater(e)
           /\ OfGivenRecord(e) => last.raised = "" /\ last.result = None

\* C13 witness: a row the filter drops, in a chain whose next step is a
\* to_topic step of a dataframe that has a producer.
C13_Witness ==
  /\ ProcessDone
  /\ last.raised = ""
  /\ last.result = None
  /\ last.produced = <<>>
  /\ dataframes[last.df]._real_producer # None
  /\ \E e \in Events :
       /\ ReturnedAbsent(e)
       /\ last.events[e].step < Len(last.steps)
       /\ last.steps[last.events[e].step].kind = "filter"
       /\ last.steps[last.events[e].step + 1].kind = "produce"

\* The step call e returned a list: an expansion.
Expanded(e) ==
  /\ last.events[e].raised = ""
  /\ last.events[e].returned # None
  /\ last.events[e].returned.kind = "list"

\* The step calls made for member k of the expansion e at the step after
\* the expanding one.
MemberCalls(e, k) ==
  {f \in Events :
     /\ last.events[f].step = last.events[e].step + 1
     /\ last.events[f].path = Append(last.events[e].path, k)}

\* p comes before q from left to right through the expansions.
RECURSIVE Before(_, _)
Before(p, q) ==
  IF p = <<>> THEN q # <<>>
  ELSE IF q = <<>> THEN FALSE
  ELSE IF Head(p) # Head(q) THEN Head(p) < Head(q)
  ELSE Before(Tail(p), Tail(q))

\* The step calls that end a branch with a result: calls of the last step
\* of the chain that returned something.
Ending == {e \in Events : /\ last.events[e].step = Len(last.steps)
                          /\ ~ReturnedAbsent(e)
                          /\ last.events[e].raised = ""}

\* The records the ending calls e, e+1, ... give, in the order of the calls.
RECURSIVE Survivors(_)
Survivors(e) ==
  IF e > Len(last.events) THEN <<>>
  ELSE (IF e \notin Ending THEN <<>>
        ELSE IF Expanded(e) THEN last.events[e].returned.items
        ELSE <<last.events[e].returned>>) \o Survivors(e + 1)

\* C14: when a step returns a list of N records, each of the N is passed,
\* once and in list order, to exactly the remaining steps, never to the
\* expanding step or one before it; a member a later filter drops removes
\* only itself; nested expansions are flattened; the result lists the
\* surviving records depth-first, left to right.  An expanding apply step
\* gives one member per element of the list the user function returned.
C14_BranchesFlattened ==
  (ProcessDone /\ last.raised = "") =>
    /\ \A e \in Events :
         LET step == last.steps[last.events[e].step]
             given == last.events[e].row
         IN  ( /\ step.kind = "apply" /\ step.expand
               /\ func_call(step.func, given.value).returned.kind = "list" )
             => /\ Expanded(e)
                /\ [i \in 1..Len(last.events[e].returned.items) |->
                      last.events[e].returned.items[i].value]
                     = func_call(step.func, given.value).returned.items
    /\ \A e \in Events :
         Expanded(e) =>
           /\ \A k \in 1..Len(last.events[e].returned.items) :
                IF last.events[e].step < Len(last.steps)
                THEN /\ Cardinality(MemberCalls(e, k)) = 1
                     /\ \A f \in MemberCalls(e, k) :
                          last.events[f].row = last.events[e].returned.items[k]
                ELSE MemberCalls(e, k) = {}
           /\ \A f \in Events :
                ( /\ f # e
                  /\ IsPrefix(last.events[e].path, last.events[f].path)
                  /\ last.events[f].path # last.events[e].path )
                => last.events[f].step > last.events[e].step
    /\ \A e, f \in Ending :
         e < f <=> Before(last.events[e].path, last.events[f].path)
    /\ (\E e \in Events : Expanded(e)) =>
         last.result = PyList(Survivors(1))

\* C14 witness: an expansion inside an expansion, followed by a filter
\* that drops some of the four records and keeps the others.
C14_Witness ==
  /\ ProcessDone
  /\ last.raised = ""
  /\ Len(last.steps) = 3
  /\ last.steps[3].kind = "filter"
  /\ \E e, f \in Events :
       /\ Expanded(e) /\ Expanded(f)
       /\ last.events[e].step = 1 /\ last.events[f].step = 2
  /\ Cardinality({e \in Events : last.events[e].step = 3}) = 4
  /\ \E e \in Events : last.events[e].step = 3 /\ ReturnedAbsent(e)
  /\ last.result.kind = "list"
  /\ Len(last.result.items) = 2

\* C16: for an apply(user_fn, expand) step and a record whose value is a
\* mapping: user_fn returning None keeps the same record (with the value
\* as user_fn left it); a mapping replaces the record's value; a list
\* fails with InvalidApplyResultType when expand is false, and process
\* fails with it, and with expand it gives one record per element, in list
\* order, each the input record with that element as its value; any other
\* type fails with InvalidApplyResultType for both values of expand.
C16_ApplyResultContract ==
  ProcessDone =>
    \A e \in Events :
      LET step == last.steps[last.events[e].step]
          given == last.events[e].row
          called == func_call(step.func, given.value)
          outcome == last.events[e]
          fails == /\ outcome.raised = "InvalidApplyResultType"
                   /\ last.raised = "InvalidApplyResultType"
                   /\ e = Len(last.events)
      IN  (step.kind = "apply" /\ given.value.kind = "dict") =>
            CASE called.returned.kind = "None" ->
                   /\ outcome.raised = ""
                   /\ outcome.returned.kind = "Row"
                   /\ outcome.returned.key = given.key
                   /\ outcome.returned.offset = given.offset
                   /\ outcome.returned.value = called.value
              [] called.returned.kind = "dict" ->
                   /\ outcome.raised = ""
                   /\ outcome.returned.kind = "Row"
                   /\ outcome.returned.key = given.key
                   /\ outcome.returned.offset = given.offset
                   /\ outcome.returned.value = called.returned
              [] called.returned.kind = "list" ->
                   IF step.expand
                   THEN /\ outcome.raised = ""
                        /\ outcome.returned.kind = "list"
                        /\ Len(outcome.returned.items)
                             = Len(called.returned.items)
                        /\ \A i \in 1..Len(called.returned.items) :
                             /\ outcome.returned.items[i].kind = "Row"
                             /\ outcome.returned.items[i].key = given.key
                             /\ outcome.returned.items[i].offset = given.offset
                             /\ outcome.returned.items[i].value
                                  = called.returned.items[i]
                   ELSE fails
              [] OTHER -> fails

\* C16 witness: a function returning a list was applied with expand=True
\* and branched, and then without expand and failed.
C16_Witness ==
  /\ ProcessDone
  /\ last.raised = "InvalidApplyResultType"
  /\ \E e, f \in Events :
       /\ e < f
       /\ last.steps[last.events[e].step]
            = [kind |-> "apply", func |-> "as_list", expand |-> TRUE]
       /\ Expanded(e)
       /\ last.steps[last.events[f].step]
            = [kind |-> "apply", func |-> "as_list", expand |-> FALSE]
       /\ last.events[f].raised = "InvalidApplyResultType"

\* The calls of to_topic steps that got to produce_row, in order.
RECURSIVE ProduceCalls(_)
ProduceCalls(e) ==
  IF e > Len(last.events) THEN <<>>
  ELSE (IF /\ last.steps[last.events[e].step].kind = "produce"
           /\ last.events[e].raised = ""
        THEN <<[row |-> last.events[e].row,
                topic |-> last.steps[last.events[e].step].topic]>>
        ELSE <<>>) \o ProduceCalls(e + 1)

\* The step call e was given what the step before it gave for the same
\* record: the row that step returned, or the member of the list it
\* returned.
GivenByEarlierStep(e) ==
  LET ev == last.events[e]
  IN  IF ev.step = 1 THEN ev.row = last.row /\ ev.path = <<>>
      ELSE \E f \in 1..(e - 1) :
             LET before == last.events[f]
             IN  /\ before.step = ev.step - 1
                 /\ before.raised = ""
                 /\ \/ /\ before.path = ev.path
                       /\ before.returned = ev.row
                    \/ /\ Expanded(f)
                       /\ ev.path # <<>>
                       /\ before.path = SubSeq(ev.path, 1, Len(ev.path) - 1)
                       /\ ev.path[Len(ev.path)]
                            \in 1..Len(before.returned.items)
                       /\ before.returned.items[ev.path[Len(ev.path)]]
                            = ev.row

\* C17: to_topic(topic) records the topic in topics_out under its name and
\* appends one step at the end of the chain; for every record that reaches
\* that step of a dataframe that has a producer, produce_row is called
\* exactly once with that record and that topic, after the earlier steps
\* were applied to the record, and the same record is passed on unmodified
\* to the following steps.
C17_ToTopicProducesOnce ==
  /\ last.op = "to_topic" =>
       LET p == dataframes[last.df]._pipeline
       IN  /\ DictHas(dataframes[last.df]._topics_out, last.topic.name)
           /\ DictGet(dataframes[last.df]._topics_out, last.topic.name)
                = last.topic
           /\ pipelines[p] = Append(last.pipelines_before[p],
                                    [kind |-> "produce", topic |-> last.topic])
           /\ \A q \in 1..Len(pipelines) :
                q # p => pipelines[q] = last.pipelines_before[q]
           /\ last.returned = last.df
  /\ (ProcessDone /\ dataframes[last.df]._real_producer # None) =>
       /\ last.produced = ProduceCalls(1)
       /\ \A e \in Events :
            last.steps[last.events[e].step].kind = "produce" =>
              /\ last.events[e].raised = ""
              /\ last.events[e].returned = last.events[e].row
              /\ GivenByEarlierStep(e)
              /\ \A f \in Events :
                   ( /\ last.events[f].step = last.events[e].step + 1
                     /\ last.events[f].path = last.events[e].path )
                   => last.events[f].row = last.events[e].row
              /\ ( /\ last.events[e].step < Len(last.steps)
                   /\ last.raised = "" )
                 => \E f \in Events :
                      /\ last.events[f].step = last.events[e].step + 1
                      /\ last.events[f].path = last.events[e].path

\* C17 witness: the two records an earlier step expanded the given one to
\* reach a to_topic step and are produced, each once, and go on to a
\* further step.
C17_Witness ==
  /\ ProcessDone
  /\ last.raised = ""
  /\ Len(last.steps) = 3
  /\ last.steps[1].kind = "apply" /\ last.steps[1].expand
  /\ last.steps[2].kind = "produce"
  /\ Len(last.produced) = 2
  /\ last.produced[1].row # last.produced[2].row
  /\ last.produced[2].row # last.row
  /\ last.produced[1].topic = last.steps[2].topic
  /\ DictHas(dataframes[last.df]._topics_out, last.steps[2].topic.name)
  /\ Cardinality({e \in Events : last.events[e].step = 3}) = 2

(***************************************************************************)
(* StreamingDataFrame of PythonClient/src/quixstreams/dataframes/dataframe *)
(* dataframe.py: apply() works on a clone, item access and assignment on   *)
(* the dataframe itself.                                                   *)
(***************************************************************************)
\* The builder calls made on the dataframes of one program.
MaxBuilds == 3

\* StreamingDataFrame(topics, _pipeline=...): the new object; its Pipeline
\* is the one given or a new one.
PythonClient_new(topic_list, pipeline) ==
  [kind |-> "PythonClient",
   _pipeline |-> pipeline,
   _real_producer |-> None,
   _topics |-> by_name(topic_list)]

\* StreamingDataFrame(topics): one dataframe is built by the caller.
PythonClient_init(topic_list) ==
  /\ dataframes = <<>>
  /\ IF ~(topic_list # <<>>)
     THEN /\ last' = Built("StreamingDataFrame", 0, "ValueError", None)
          /\ UNCHANGED <<dataframes, pipelines>>
     ELSE /\ pipelines' = Append(pipelines, <<>>)
          /\ dataframes' = Append(dataframes,
                                  PythonClient_new(topic_list, NewPipeline))
          /\ last' = Built("StreamingDataFrame", Len(dataframes) + 1, "",
                           Len(dataframes) + 1)
  /\ UNCHANGED <<manager_vars, calls>>

\* A changed apply: the step is appended to the dataframe itself, which is
\* returned.
PythonClient_apply_in_place(d, func) ==
  /\ Extensible(d)
  /\ calls < MaxBuilds
  /\ _apply(d, [kind |-> "applier", func |-> func])
  /\ last' = Built("apply", d, "", d) @@ [func |-> func]
  /\ calls' = calls + 1
  /\ UNCHANGED <<manager_vars, dataframes>>

\* StreamingDataFrame.apply(func): self._clone()._apply(func=func, ...);
\* _clone builds a dataframe from list(self._topics.values()) and
\* self._pipeline.clone().
PythonClient_apply(d, func) ==
  /\ Extensible(d)
  /\ calls < MaxBuilds
  /\ LET cloned == Len(dataframes) + 1
     IN  /\ dataframes' = Append(dataframes,
                                 PythonClient_new(
                                   dict_values(dataframes[d]._topics),
                                   NewPipeline))
         /\ pipelines' = Append(pipelines,
                                Pipeline_apply(Pipeline_clone(StepsOf(d)),
                                               [kind |-> "applier",
                                                func |-> func]))
         /\ last' = Built("apply", d, "", cloned) @@ [func |-> func]
  /\ calls' = calls + 1
  /\ UNCHANGED manager_vars

\* StreamingDataFrame.__setitem__(key, value): self._apply(partial(setitem,
\* key, value))
PythonClient_setitem(d, key, value) ==
  /\ Extensible(d)
  /\ calls < MaxBuilds
  /\ _apply(d, [kind |-> "setitem", key |-> key, value |-> value])
  /\ last' = Built("__setitem__", d, "", None)
  /\ calls' = calls + 1
  /\ UNCHANGED <<manager_vars, dataframes>>

\* StreamingDataFrame.__getitem__(item)
PythonClient_getitem(d, item) ==
  /\ Extensible(d)
  /\ calls < MaxBuilds
  /\ IF item.kind \in {"ref", "op"}
     THEN /\ _apply(d, [kind |-> "filter", column |-> item])
          /\ last' = Built("__getitem__", d, "", d)
     ELSE IF item.kind = "list"
     THEN /\ _apply(d, [kind |-> "subset", keys |-> item.items])
          /\ last' = Built("__getitem__", d, "", d)
     ELSE IF item.kind = "StreamingDataFrame"
     THEN /\ last' = Built("__getitem__", d, "ValueError", None)
          /\ UNCHANGED pipelines
     ELSE /\ last' = Built("__getitem__", d, "", Column(item.v))
          /\ UNCHANGED pipelines
  /\ calls' = calls + 1
  /\ UNCHANGED <<manager_vars, dataframes>>

\* StreamingDataFrame.process(row)
PythonClient_process(d, row) ==
  /\ d \in 1..Len(dataframes)
  /\ LET r == Pipeline_process(dataframes[d], StepsOf(d), row)
     IN  last' = [op |-> "process", df |-> d, row |-> row,
                  steps |-> StepsOf(d),
                  raised |-> r.raised, result |-> r.result,
                  events |-> r.events, produced |-> r.produced]
  /\ UNCHANGED <<manager_vars, calls, frame_vars>>

NextClient ==
  \/ \E topic_list \in TopicsInArgs : PythonClient_init(topic_list)
  \/ \E d \in 1..Len(dataframes) :
       \/ \E func \in Appliers : PythonClient_apply(d, func)
       \/ PythonClient_setitem(d, "seen", Literal(1))
       \/ \E item \in {IsEven, [kind |-> "str", v |-> "x"]} :
            PythonClient_getitem(d, item)
       \/ \E row \in Rows : PythonClient_process(d, row)

SpecClient == InitFrame /\ [][NextClient]_vars

\* The Pipeline objects of dataframes_before, as a call found them.
StepsBefore(d) == last.pipelines_before[last.dataframes_before[d]._pipeline]

\* The names of the spies and the kinds of the other steps, in the order
\* process called them.
Executed ==
  [e \in Events |->
     LET step == last.steps[last.events[e].step]
     IN  IF step.kind = "applier" THEN step.func ELSE step.kind]

\* The same for the steps of a chain.
Chain(steps) ==
  [i \in 1..Len(steps) |->
     IF steps[i].kind = "applier" THEN steps[i].func ELSE steps[i].kind]

MaxBoxes == 3

StateType == {"String", "Long", "Double", "Bool", "Binary", "Object"}

\* A Python value: the class it is an instance of and what it holds.
Native(cls, repr) == [kind |-> cls, repr |-> repr]

\* The classes a value of class cls is an instance of: bool is a subclass
\* of int.
Bases(cls) ==
  IF cls = "bool" THEN {"bool", "int", "object"} ELSE {cls, "object"}

isinstance(value, cls) == cls \in Bases(value.kind)

\* pickle.dumps(obj): bytes that begin with 128 and end with 46, from
\* which pickle.loads gives the object back.
pickle_dumps(obj) ==
  [kind |-> "bytes", repr |-> obj.repr, first |-> 128, final |-> 46,
   loads |-> obj]

\* A StateValue object.
Boxed(type, value) == [kind |-> "StateValue", _type |-> type, _value |-> value]

\* A ctypes.c_void_p to a native state value of the given type and content.
Pointer(type, content) ==
  [kind |-> "c_void_p", Type |-> type, content |-> content]

\* The branch for a pointer to a native state value (lines 38-60).
from_interop(value) ==
  IF value.Type \in {"String", "Binary", "Bool", "Long", "Double"}
  THEN Returned(Boxed(value.Type, value.content))
  ELSE IF value.Type = "Object"
  THEN IF value.content.first # 128 \/ value.content.final # 46
       THEN Raised("Exception")
       ELSE Returned(Boxed("Object", value.content.loads))
  ELSE Raised("Exception")

\* StateValue.__init__(self, value): the tests in the order of the code.
StateValue_init(value) ==
  IF isinstance(value, "StateValue")
  THEN Returned(Boxed(value._type, value._value))
  ELSE IF isinstance(value, "c_void_p") THEN from_interop(value)
  ELSE IF isinstance(value, "str") THEN Returned(Boxed("String", value))
  ELSE IF isinstance(value, "int") THEN Returned(Boxed("Long", value))
  ELSE IF isinstance(value, "float") THEN Returned(Boxed("Double", value))
  ELSE IF isinstance(value, "bool") THEN Returned(Boxed("Bool", value))
  ELSE IF value.kind = "bytes" \/ value.kind = "bytearray"
  THEN Returned(Boxed("Binary",
                      IF value.kind = "bytearray"
                      THEN Native("bytes", value.repr) ELSE value))
  ELSE Returned(Boxed("Object", value))

\* The native values boxed.
Natives ==
  {Native("str", r) : r \in {"", "a", "True", "1"}} \cup
  {Native("int", r) : r \in {"0", "1", "-1", "2"}} \cup
  {Native("float", r) : r \in {"0.0", "1.0", "5.5"}} \cup
  {Native("bool", r) : r \in {"True", "False"}} \cup
  {Native("bytes", r) : r \in {"", "a", "ab"}} \cup
  {Native("bytearray", r) : r \in {"", "a", "ab"}} \cup
  {Native("NoneType", "None"), Native("dict", "{}"),
   Native("dict", "{'a': 1}"), Native("list", "[1]"),
   Native("tuple", "(1, 'a')")}

\* Pointers to native state values: one of each type, and an Object whose
\* bytes are not a pickle.
Pointers ==
  {Pointer("String", Native("str", "a")),
   Pointer("Long", Native("int", "1")),
   Pointer("Double", Native("float", "5.5")),
   Pointer("Bool", Native("bool", "True")),
   Pointer("Binary", Native("bytes", "ab")),
   Pointer("Object", pickle_dumps(Native("dict", "{'a': 1}"))),
   Pointer("Object", [pickle_dumps(Native("list", "[1]")) EXCEPT !.first = 0])}

\* StateValue(value), for a native value, a pointer, or the StateValue the
\* call before it gave.
StateValue_new(value) ==
  /\ calls < MaxBoxes
  /\ LET r == StateValue_init(value)
     IN  last' = [op |-> "StateValue", value |-> value,
                  raised |-> r.raised, self |-> r.value]
  /\ calls' = calls + 1
  /\ UNCHANGED <<manager_vars, frame_vars>>

\* The StateValue the last call constructed, if there is one.
LastBoxed ==
  IF last.op = "StateValue" /\ last.raised = "" THEN {last.self} ELSE {}

NextBox ==
  \/ \E value \in Natives \cup Pointers : StateValue_new(value)
  \/ \E value \in LastBoxed : StateValue_new(value)

SpecBox == InitEval /\ [][NextBox]_vars

\* The state type the kinds of native values are to be tagged with.
TagOf(cls) ==
  CASE cls = "str" -> "String"
    [] cls = "int" -> "Long"
    [] cls = "float" -> "Double"
    [] cls = "bool" -> "Bool"
    [] cls \in {"bytes", "bytearray"} -> "Binary"
    [] OTHER -> "Object"

\* C23 (as claimed): boxing a native value gives a StateValue tagged with
\* the state type of the value's kind (str String, int Long, float Double,
\* bool Bool, bytes and bytearray Binary, any other object Object) that
\* holds the value, a bytearray as bytes; boxing a StateValue gives a
\* StateValue of the same type and value.
C23_BoxingTagsByKind ==
  (last.op = "StateValue" /\ last.value.kind # "c_void_p") =>
    /\ last.raised = ""
    /\ IF last.value.kind = "StateValue"
       THEN /\ last.self._type = last.value._type
            /\ last.self._value = last.value._value
       ELSE /\ last.self._type = TagOf(last.value.kind)
            /\ last.self._value = IF last.value.kind = "bytearray"
                                  THEN Native("bytes", last.value.repr)
                                  ELSE last.value

====
